---- MODULE Spec2Model ----
(***************************************************************************)
(* Finance AI backend (src/backend/app.py): the natural-language-to-SQL    *)
(* pipeline of POST /api/query and the functions it is built from.         *)
(*                                                                         *)
(* Text is modelled as a sequence of one-character strings, so that        *)
(* str.lower, str.strip, str.rstrip, str.startswith, the `in` substring    *)
(* test and the regular expressions are computed on characters, as the     *)
(* code computes them.  Python's None is the value None below.             *)
(*                                                                         *)
(* Two characters of the source cannot be written in a string of this      *)
(* language and are represented by characters that occur nowhere else in   *)
(* the model: the backtick by "^", and the two code points of the warning *)
(* sign (U+26A0 U+FE0F) by "!" and "~".                                    *)
(***************************************************************************)
EXTENDS Naturals, Integers, Sequences, FiniteSets, TLC

VARIABLES
    pc,          \* position of process_query: "idle" before a request
    question,    \* process_query: data.get('question', '')
    schema_text, \* process_query: schema_text
    attempt,     \* generate_sql: attempt, the loop variable of range(max_retries)
    sql,         \* process_query: sql
    df,          \* process_query: df
    insights,    \* process_query: insights
    response,    \* what process_query returned: [status, body]
    model_log,   \* every MODEL.generate_content call so far, in order
    exec_log,    \* every statement handed to cursor.execute so far, in order
    accepted,    \* the strings validate_sql has returned in this request
    completion,  \* generate_sql: response.text of the latest attempt (ModelRaise if it raised)
    call         \* the latest direct call of a function: its name, argument
                 \* and outcome; NoCall when there is none

vars == << pc, question, schema_text, attempt, sql, df, insights, response,
           model_log, exec_log, accepted, completion, call >>

(***************************************************************************)
(* Bounds                                                                  *)
(***************************************************************************)
\* a SQL string handed to validate_sql / enforce_limit is at most this many
\* fragments of SqlFragments
MaxFrags == 3
\* a completion of the SQL prompt is at most this many fragments of RawFragments
MaxRawFrags == 2
\* a result set handed to fetch_df directly has at most this many rows
MaxRows == 2

(***************************************************************************)
(* Text                                                                    *)
(***************************************************************************)
Chars(s) == [i \in 1..Len(s) |-> SubSeq(s, i, i)]

None == << "None" >>

UpperAlpha == Chars("ABCDEFGHIJKLMNOPQRSTUVWXYZ")
LowerAlpha == Chars("abcdefghijklmnopqrstuvwxyz")

\* str.lower on one character
LowerChar(c) ==
    IF \E i \in 1..26 : UpperAlpha[i] = c
    THEN LowerAlpha[CHOOSE i \in 1..26 : UpperAlpha[i] = c]
    ELSE c

\* str.lower
Lower(s) == [i \in 1..Len(s) |-> LowerChar(s[i])]

\* str.isspace on one character
IsSpace(c) == c \in {" ", "\n", "\t", "\r"}

\* sub in s
Contains(s, sub) ==
    \E i \in 1..(Len(s) + 1 - Len(sub)) : SubSeq(s, i, i + Len(sub) - 1) = sub

\* s.startswith(pre)
StartsWith(s, pre) == Len(s) >= Len(pre) /\ SubSeq(s, 1, Len(pre)) = pre

\* s.lstrip()
LStrip(s) ==
    IF \A i \in 1..Len(s) : IsSpace(s[i]) THEN << >>
    ELSE LET k == CHOOSE i \in 1..Len(s) :
                     ~IsSpace(s[i]) /\ \A j \in 1..(i - 1) : IsSpace(s[j])
         IN  SubSeq(s, k, Len(s))

\* s.rstrip()
RStrip(s) ==
    IF \A i \in 1..Len(s) : IsSpace(s[i]) THEN << >>
    ELSE LET k == CHOOSE i \in 1..Len(s) :
                     ~IsSpace(s[i]) /\ \A j \in (i + 1)..Len(s) : IsSpace(s[j])
         IN  SubSeq(s, 1, k)

\* s.strip()
Strip(s) == LStrip(RStrip(s))

\* s.rstrip(c) for a single character c
RStripChar(s, c) ==
    IF \A i \in 1..Len(s) : s[i] = c THEN << >>
    ELSE LET k == CHOOSE i \in 1..Len(s) :
                     s[i] # c /\ \A j \in (i + 1)..Len(s) : s[j] = c
         IN  SubSeq(s, 1, k)

RECURSIVE Concat(_)
\* ''.join(parts)
Concat(parts) ==
    IF parts = << >> THEN << >> ELSE Head(parts) \o Concat(Tail(parts))

\* all sequences over S of length 0..n
RECURSIVE SeqsUpTo(_, _)
SeqsUpTo(S, n) ==
    IF n = 0 THEN { << >> }
    ELSE LET shorter == SeqsUpTo(S, n - 1)
         IN  shorter \cup { Append(p, x) : p \in shorter, x \in S }

(***************************************************************************)
(* FORBIDDEN_SQL, validate_sql, enforce_limit                              *)
(***************************************************************************)
FORBIDDEN_SQL ==
    << "insert", "update", "delete", "drop", "alter", "truncate", "create",
       "grant", "revoke" >>

\* a returned value / a raised exception with message m
Returned(v) == [raised |-> FALSE, value |-> v, msg |-> << >>]
Raised(m) == [raised |-> TRUE, value |-> None, msg |-> Chars(m)]

\* Python truthiness of an optional string
Truthy(s) == s # None /\ s # << >>

\* validate_sql looking for the forbidden keywords in sql itself, not in
\* sql_lower
validate_sql_case_sensitive(s) ==
    IF ~Truthy(s) THEN Raised("Empty SQL query")
    ELSE LET hits == { i \in 1..Len(FORBIDDEN_SQL) :
                          Contains(s, Chars(FORBIDDEN_SQL[i])) }
         IN  IF hits # {}
             THEN LET first == CHOOSE i \in hits : \A j \in hits : i <= j
                  IN  Raised("Unsafe SQL operation: " \o FORBIDDEN_SQL[first])
             ELSE IF ~StartsWith(Strip(Lower(s)), Chars("select"))
                  THEN Raised("Only SELECT queries allowed")
                  ELSE Returned(s)

\* validate_sql asking for 'select' anywhere in sql_lower, not at its start
validate_sql_select_anywhere(s) ==
    IF ~Truthy(s) THEN Raised("Empty SQL query")
    ELSE LET sql_lower == Lower(s)
             hits == { i \in 1..Len(FORBIDDEN_SQL) :
                          Contains(sql_lower, Chars(FORBIDDEN_SQL[i])) }
         IN  IF hits # {}
             THEN LET first == CHOOSE i \in hits : \A j \in hits : i <= j
                  IN  Raised("Unsafe SQL operation: " \o FORBIDDEN_SQL[first])
             ELSE IF ~Contains(sql_lower, Chars("select"))
                  THEN Raised("Only SELECT queries allowed")
                  ELSE Returned(s)

validate_sql(s) ==
    IF ~Truthy(s) THEN Raised("Empty SQL query")
    ELSE LET sql_lower == Lower(s)
             hits == { i \in 1..Len(FORBIDDEN_SQL) :
                          Contains(sql_lower, Chars(FORBIDDEN_SQL[i])) }
         IN  IF hits # {}
             THEN LET first == CHOOSE i \in hits : \A j \in hits : i <= j
                  IN  Raised("Unsafe SQL operation: " \o FORBIDDEN_SQL[first])
             ELSE IF ~StartsWith(Strip(sql_lower), Chars("select"))
                  THEN Raised("Only SELECT queries allowed")
                  ELSE Returned(s)

aggregate_keywords == << "sum(", "count(", "avg(", "min(", "max(" >>

LimitClause == Chars(" LIMIT 50;")

\* enforce_limit looking for "limit" in sql itself, not in sql_l
enforce_limit_case_sensitive(s) ==
    LET sql_l == Lower(s)
        has_aggregate == \E i \in 1..Len(aggregate_keywords) :
                             Contains(sql_l, Chars(aggregate_keywords[i]))
        has_group_by == Contains(sql_l, Chars("group by"))
        has_from == Contains(sql_l, Chars("from"))
    IN  IF Contains(s, Chars("limit")) THEN s
        ELSE IF has_from /\ (has_group_by \/ ~has_aggregate)
             THEN RStripChar(s, ";") \o LimitClause
             ELSE s

\* enforce_limit without the has_group_by disjunct
enforce_limit_no_group_by(s) ==
    LET sql_l == Lower(s)
        has_aggregate == \E i \in 1..Len(aggregate_keywords) :
                             Contains(sql_l, Chars(aggregate_keywords[i]))
        has_from == Contains(sql_l, Chars("from"))
    IN  IF Contains(sql_l, Chars("limit")) THEN s
        ELSE IF has_from /\ ~has_aggregate
             THEN RStripChar(s, ";") \o LimitClause
             ELSE s

\* enforce_limit keeping only what stands before the first semicolon
enforce_limit_first_statement(s) ==
    LET sql_l == Lower(s)
        has_aggregate == \E i \in 1..Len(aggregate_keywords) :
                             Contains(sql_l, Chars(aggregate_keywords[i]))
        has_group_by == Contains(sql_l, Chars("group by"))
        has_from == Contains(sql_l, Chars("from"))
        at == { i \in 1..Len(s) : s[i] = ";" }
        first == IF at = {} THEN Len(s) + 1
                 ELSE CHOOSE i \in at : \A j \in at : i <= j
    IN  IF Contains(sql_l, Chars("limit")) THEN s
        ELSE IF has_from /\ (has_group_by \/ ~has_aggregate)
             THEN SubSeq(s, 1, first - 1) \o LimitClause
             ELSE s

enforce_limit(s) ==
    LET sql_l == Lower(s)
        has_aggregate == \E i \in 1..Len(aggregate_keywords) :
                             Contains(sql_l, Chars(aggregate_keywords[i]))
        has_group_by == Contains(sql_l, Chars("group by"))
        has_from == Contains(sql_l, Chars("from"))
    IN  IF Contains(sql_l, Chars("limit")) THEN s
        ELSE IF has_from /\ (has_group_by \/ ~has_aggregate)
             THEN RStripChar(s, ";") \o LimitClause
             ELSE s

(***************************************************************************)
(* Inputs of the direct calls                                              *)
(***************************************************************************)
SqlFragments ==
    { Chars("select a"), Chars(" SELECT sum(x)"), Chars(" from t"),
      Chars(" FROM table_dropped"), Chars(" group by a"),
      Chars(" Group By b;"), Chars(" limit 5"), Chars(";"), Chars(" "),
      Chars("update_count"), Chars("x DELETE") }

SqlInputs == { Concat(p) : p \in SeqsUpTo(SqlFragments, MaxFrags) }

(***************************************************************************)
(* generate_sql: cleaning one completion                                   *)
(***************************************************************************)
max_retries == 3

\* the first index i of s with s[i..] starting with sub, 0 if there is none
Find(s, sub) ==
    LET at == { i \in 1..(Len(s) + 1 - Len(sub)) :
                   SubSeq(s, i, i + Len(sub) - 1) = sub }
    IN  IF at = {} THEN 0 ELSE CHOOSE i \in at : \A j \in at : i <= j

RECURSIVE StripSqlFences(_)
\* re.sub(r'```sql|```|`', '', sql, flags=re.IGNORECASE): a left-to-right scan;
\* a match can only start at a backtick, where the alternatives are tried in order
StripSqlFences(s) ==
    LET k == Find(s, << "^" >>)
    IN  IF k = 0 THEN s
        ELSE LET rest == SubSeq(s, k, Len(s))
                 n == IF StartsWith(Lower(rest), Chars("^^^sql")) THEN 6
                      ELSE IF StartsWith(rest, Chars("^^^")) THEN 3
                      ELSE 1
             IN  SubSeq(s, 1, k - 1) \o StripSqlFences(SubSeq(s, k + n, Len(s)))

RECURSIVE Split(_, _)
\* s.split(sep) for a single character sep
Split(s, sep) ==
    IF \A i \in 1..Len(s) : s[i] # sep THEN << s >>
    ELSE LET k == CHOOSE i \in 1..Len(s) :
                     s[i] = sep /\ \A j \in 1..(i - 1) : s[j] # sep
         IN  << SubSeq(s, 1, k - 1) >> \o Split(SubSeq(s, k + 1, Len(s)), sep)

RECURSIVE JoinWith(_, _)
\* sep.join(parts)
JoinWith(parts, sep) ==
    IF parts = << >> THEN << >>
    ELSE IF Len(parts) = 1 THEN Head(parts)
    ELSE Head(parts) \o sep \o JoinWith(Tail(parts), sep)

\* the prefixes of a line that generate_sql drops
CommentPrefixes == << "#", "//", "--", "Note:", "Question:" >>

\* line.strip() and not line.strip().startswith(('#', '//', '--', 'Note:', 'Question:'))
KeepLine(line) ==
    /\ Strip(line) # << >>
    /\ \A i \in 1..Len(CommentPrefixes) :
           ~StartsWith(Strip(line), Chars(CommentPrefixes[i]))

\* [line.strip() for line in sql.split('\n') if ...]
CleanLines(s) ==
    LET all == Split(s, "\n")
        kept == SelectSeq(all, KeepLine)
    IN  [i \in 1..Len(kept) |-> Strip(kept[i])]

\* re.search(r'(SELECT\s+.*?)(?:;|$)', sql, re.IGNORECASE | re.DOTALL): group(1),
\* or None when there is no match.  The text searched holds no newline (it was
\* split on them), so $ matches at its end only.
SelectMatch(s) ==
    LET starts == { i \in 1..Len(s) :
                       /\ i + 6 <= Len(s)
                       /\ Lower(SubSeq(s, i, i + 5)) = Chars("select")
                       /\ IsSpace(s[i + 6]) }
    IN  IF starts = {} THEN None
        ELSE LET i == CHOOSE a \in starts : \A b \in starts : a <= b
                 semis == { j \in (i + 7)..Len(s) : s[j] = ";" }
                 stop == IF semis = {} THEN Len(s) + 1
                         ELSE CHOOSE a \in semis : \A b \in semis : a <= b
             IN  SubSeq(s, i, stop - 1)

\* lines 289-303: the candidate statement extracted from response.text
CleanSql(text) ==
    LET s1 == Strip(StripSqlFences(Strip(text)))
        s2 == JoinWith(CleanLines(s1), << " " >>)
    IN  IF StartsWith(Lower(s2), Chars("select")) THEN s2
        ELSE IF SelectMatch(s2) # None THEN Strip(SelectMatch(s2))
        ELSE s2

\* a completion either raises (the service call, or reading response.text) or is text
ModelRaise == << "raise" >>

\* a pass that returns the cleaned output without the test of line 305
generate_sql_attempt_unchecked(out) ==
    IF out = ModelRaise THEN None ELSE enforce_limit(CleanSql(out))

\* one pass of the loop body, lines 280-311: the value returned from inside the
\* loop, or None when the attempt falls through to the next one
generate_sql_attempt(out) ==
    IF out = ModelRaise THEN None
    ELSE LET s == CleanSql(out)
         IN  IF StartsWith(Lower(s), Chars("select")) THEN enforce_limit(s)
             ELSE None

RawFragments ==
    { Chars("^^^sql\n"), Chars("\n^^^"), Chars("select a from t"),
      Chars("SELECT sum(x) from t;"), Chars("Query: Select b FROM u ; ok"),
      Chars("-- c\n"), Chars("; DROP TABLE t"),
      Chars("\n select x limit 5") }

SqlCompletions == { Concat(p) : p \in SeqsUpTo(RawFragments, MaxRawFrags) }

\* every outcome of the service call of one pass, with what the pass makes of it
SqlAttempts ==
    { [out |-> o, ret |-> generate_sql_attempt(o)] :
          o \in SqlCompletions \cup { ModelRaise } }

(***************************************************************************)
(* json.loads, on the JSON the chart prompt can be answered with: objects, *)
(* arrays, strings without escapes, integers, true, false, null.  A value  *)
(* is [t |-> its type, s |-> the text of a string, number or boolean,      *)
(* items |-> the members [k, val] of an object in insertion order (a later *)
(* duplicate key replacing the earlier value, as in a dict) or the         *)
(* elements of an array (their k empty)].                                  *)
(***************************************************************************)
IsJsonSpace(c) == c \in {" ", "\n", "\t", "\r"}

Digits == Chars("0123456789")

IsDigit(c) == \E i \in 1..10 : Digits[i] = c

\* the first index >= i of s that holds no JSON whitespace, Len(s) + 1 if none
SkipWs(s, i) ==
    LET rest == { j \in i..Len(s) : ~IsJsonSpace(s[j]) }
    IN  IF rest = {} THEN Len(s) + 1
        ELSE CHOOSE a \in rest : \A b \in rest : a <= b

JsonValue(t, s, items) == [t |-> t, s |-> s, items |-> items]
JsonNull == JsonValue("null", << >>, << >>)
JsonStr(s) == JsonValue("str", Chars(s), << >>)

JsonFail == [ok |-> FALSE, val |-> JsonNull, next |-> 0]
JsonOk(v, n) == [ok |-> TRUE, val |-> v, next |-> n]

\* a string whose opening quote is at i - 1
ParseString(s, i) ==
    LET quotes == { j \in i..Len(s) : s[j] = "\"" }
    IN  IF quotes = {} THEN JsonFail
        ELSE LET q == CHOOSE a \in quotes : \A b \in quotes : a <= b
                 body == SubSeq(s, i, q - 1)
             IN  IF \E j \in 1..Len(body) : body[j] \in {"\n", "\t", "\r", "\\"}
                 THEN JsonFail
                 ELSE JsonOk(JsonValue("str", body, << >>), q + 1)

\* an integer starting at i: -?(0|[1-9][0-9]*)
ParseNumber(s, i) ==
    LET d == IF s[i] = "-" THEN i + 1 ELSE i
        nondigits == { j \in d..Len(s) : ~IsDigit(s[j]) }
        stop == IF nondigits = {} THEN Len(s) + 1
                ELSE CHOOSE a \in nondigits : \A b \in nondigits : a <= b
        last == IF d <= Len(s) /\ s[d] = "0" THEN d + 1 ELSE stop
    IN  IF last = d THEN JsonFail
        ELSE JsonOk(JsonValue("num", SubSeq(s, i, last - 1), << >>), last)

\* d[k] = val on the members of an object
DictSet(members, k, val) ==
    IF \E i \in 1..Len(members) : members[i].k = k
    THEN [i \in 1..Len(members) |->
             IF members[i].k = k THEN [k |-> k, val |-> val] ELSE members[i]]
    ELSE Append(members, [k |-> k, val |-> val])

RECURSIVE ParseValue(_, _), ParseElements(_, _, _), ParseMembers(_, _, _)

\* the value starting at or after i
ParseValue(s, i) ==
    LET j == SkipWs(s, i)
    IN  IF j > Len(s) THEN JsonFail
        ELSE IF s[j] = "{" THEN
            IF SkipWs(s, j + 1) <= Len(s) /\ s[SkipWs(s, j + 1)] = "}"
            THEN JsonOk(JsonValue("obj", << >>, << >>), SkipWs(s, j + 1) + 1)
            ELSE ParseMembers(s, j + 1, << >>)
        ELSE IF s[j] = "[" THEN
            IF SkipWs(s, j + 1) <= Len(s) /\ s[SkipWs(s, j + 1)] = "]"
            THEN JsonOk(JsonValue("arr", << >>, << >>), SkipWs(s, j + 1) + 1)
            ELSE ParseElements(s, j + 1, << >>)
        ELSE IF s[j] = "\"" THEN ParseString(s, j + 1)
        ELSE IF s[j] = "-" \/ IsDigit(s[j]) THEN ParseNumber(s, j)
        ELSE IF StartsWith(SubSeq(s, j, Len(s)), Chars("null"))
             THEN JsonOk(JsonNull, j + 4)
        ELSE IF StartsWith(SubSeq(s, j, Len(s)), Chars("true"))
             THEN JsonOk(JsonValue("bool", Chars("true"), << >>), j + 4)
        ELSE IF StartsWith(SubSeq(s, j, Len(s)), Chars("false"))
             THEN JsonOk(JsonValue("bool", Chars("false"), << >>), j + 5)
        ELSE JsonFail

\* the elements of an array from i on, acc holding those already read
ParseElements(s, i, acc) ==
    LET e == ParseValue(s, i)
    IN  IF ~e.ok THEN JsonFail
        ELSE LET j == SkipWs(s, e.next)
             IN  IF j > Len(s) THEN JsonFail
                 ELSE IF s[j] = ","
                      THEN ParseElements(s, j + 1,
                                         Append(acc, [k |-> << >>, val |-> e.val]))
                 ELSE IF s[j] = "]"
                      THEN JsonOk(JsonValue("arr", << >>,
                                            Append(acc, [k |-> << >>, val |-> e.val])),
                                  j + 1)
                 ELSE JsonFail

\* the members of an object from i on, acc holding those already read
ParseMembers(s, i, acc) ==
    LET j == SkipWs(s, i)
    IN  IF j > Len(s) \/ s[j] # "\"" THEN JsonFail
        ELSE LET key == ParseString(s, j + 1)
             IN  IF ~key.ok THEN JsonFail
                 ELSE LET c == SkipWs(s, key.next)
                      IN  IF c > Len(s) \/ s[c] # ":" THEN JsonFail
                          ELSE LET e == ParseValue(s, c + 1)
                               IN  IF ~e.ok THEN JsonFail
                                   ELSE LET n == SkipWs(s, e.next)
                                            new == DictSet(acc, key.val.s, e.val)
                                        IN  IF n > Len(s) THEN JsonFail
                                            ELSE IF s[n] = ","
                                                 THEN ParseMembers(s, n + 1, new)
                                            ELSE IF s[n] = "}"
                                                 THEN JsonOk(JsonValue("obj", << >>, new), n + 1)
                                            ELSE JsonFail

\* json.loads(s): the value, or a raised JSONDecodeError
json_loads(s) ==
    LET r == ParseValue(s, 1)
    IN  IF r.ok /\ SkipWs(s, r.next) > Len(s)
        THEN [raised |-> FALSE, value |-> r.val]
        ELSE [raised |-> TRUE, value |-> JsonNull]

(***************************************************************************)
(* generate_chart_spec, generate_insights                                  *)
(***************************************************************************)
\* str(e) of the exception a failed service call raises
ModelRaiseText == Chars("503 service unavailable")

RECURSIVE StripJsonFences(_)
\* re.sub(r"```json|```", "", raw, flags=re.IGNORECASE): a left-to-right scan;
\* a match can only start at three backticks
StripJsonFences(s) ==
    LET k == Find(s, Chars("^^^"))
    IN  IF k = 0 THEN s
        ELSE LET rest == SubSeq(s, k, Len(s))
                 n == IF StartsWith(Lower(rest), Chars("^^^json")) THEN 7 ELSE 3
             IN  SubSeq(s, 1, k - 1) \o StripJsonFences(SubSeq(s, k + n, Len(s)))

\* the dict of the except branch, lines 348-353
FallbackChartSpec ==
    JsonValue("obj", << >>,
              << [k |-> Chars("chart"), val |-> JsonStr("table")],
                 [k |-> Chars("x"), val |-> JsonNull],
                 [k |-> Chars("y"), val |-> JsonNull],
                 [k |-> Chars("title"), val |-> JsonStr("Data Preview")] >>)

\* what a call returns, with the service calls it made
Result(v, calls) == [ret |-> v, calls |-> calls]

\* generate_chart_spec asking the service a second time instead of falling back
generate_chart_spec_retry(out) ==
    IF out = ModelRaise THEN Result(FallbackChartSpec, << "chart", "chart" >>)
    ELSE LET spec == json_loads(Strip(StripJsonFences(Strip(out))))
         IN  IF spec.raised THEN Result(FallbackChartSpec, << "chart", "chart" >>)
             ELSE Result(spec.value, << "chart" >>)

\* out: the completion of the one MODEL.generate_content call, or ModelRaise
generate_chart_spec(out) ==
    IF out = ModelRaise THEN Result(FallbackChartSpec, << "chart" >>)
    ELSE LET raw == Strip(StripJsonFences(Strip(out)))
             spec == json_loads(raw)
         IN  IF spec.raised THEN Result(FallbackChartSpec, << "chart" >>)
             ELSE Result(spec.value, << "chart" >>)

\* a DataFrame is [columns |-> names, rows |-> rows of cells]; a cell is
\* [t |-> "null" | "num" | "text", s |-> its text, n |-> its number]
Empty(d) == Len(d.rows) = 0 \/ Len(d.columns) = 0

NoDataText == Chars("No data found for this query.")

\* generate_insights without the test of line 358
generate_insights_always(d, out) ==
    IF out = ModelRaise
    THEN Result(Chars("Analysis Error: ") \o ModelRaiseText, << "insights" >>)
    ELSE Result(Strip(out), << "insights" >>)

\* out: the completion of the MODEL.generate_content call, or ModelRaise; it is
\* read only when the call is made
generate_insights(d, out) ==
    IF Empty(d) THEN Result(NoDataText, << >>)
    ELSE IF out = ModelRaise
         THEN Result(Chars("Analysis Error: ") \o ModelRaiseText, << "insights" >>)
         ELSE Result(Strip(out), << "insights" >>)

(***************************************************************************)
(* force_numeric, DB.fetch_df                                              *)
(***************************************************************************)
Null == [t |-> "null", s |-> << >>, n |-> 0]
Num(n) == [t |-> "num", s |-> << >>, n |-> n]
Text(s) == [t |-> "text", s |-> Chars(s), n |-> 0]

RECURSIVE DigitsToNat(_)
DigitsToNat(s) ==
    IF s = << >> THEN 0
    ELSE 10 * DigitsToNat(SubSeq(s, 1, Len(s) - 1))
         + ((CHOOSE i \in 1..10 : Digits[i] = s[Len(s)]) - 1)

\* the texts pd.to_numeric turns into a number, among those of the model:
\* -?[0-9]+; under errors='coerce' every other text, "" and "nan" included,
\* gives NaN
ParsesAsNumber(s) ==
    LET d == IF s # << >> /\ Head(s) = "-" THEN Tail(s) ELSE s
    IN  d # << >> /\ \A i \in 1..Len(d) : IsDigit(d[i])

\* pd.to_numeric(..., errors='coerce') on one cell
to_numeric(c) ==
    IF c.t # "text" THEN c
    ELSE IF ~ParsesAsNumber(c.s) THEN Null
    ELSE IF Head(c.s) = "-" THEN Num(0 - DigitsToNat(Tail(c.s)))
    ELSE Num(DigitsToNat(c.s))

Column(d, j) == [i \in 1..Len(d.rows) |-> d.rows[i][j]]

\* df[col].dtype == 'object': the column holds a text, or nothing but None
IsObject(col) ==
    \/ \E i \in 1..Len(col) : col[i].t = "text"
    \/ \A i \in 1..Len(col) : col[i].t = "null"

\* force_numeric replacing cell by cell: a text that does not convert stays
force_numeric_cellwise(d) ==
    [columns |-> d.columns,
     rows |-> [i \in 1..Len(d.rows) |->
                  [j \in 1..Len(d.columns) |->
                      IF to_numeric(d.rows[i][j]).t = "null" THEN d.rows[i][j]
                      ELSE to_numeric(d.rows[i][j])]]]

force_numeric(d) ==
    LET convert(j) ==
            LET col == Column(d, j)
                converted == [i \in 1..Len(col) |-> to_numeric(col[i])]
            IN  IF IsObject(col) /\ ~(\A i \in 1..Len(col) : converted[i].t = "null")
                THEN converted ELSE col
    IN  [columns |-> d.columns,
         rows |-> [i \in 1..Len(d.rows) |->
                      [j \in 1..Len(d.columns) |-> convert(j)[i]]]]

\* str(e) of the error a failed connect / execute raises
StoreRaiseText == Chars("(1054, Unknown column)")

\* lines 129-137, given the result set
fetch_df(result) == IF Empty(result) THEN result ELSE force_numeric(result)

(***************************************************************************)
(* DB.get_schema_detailed, DB.get_schema_text                              *)
(***************************************************************************)
RECURSIVE NatToChars(_)
\* str(n)
NatToChars(n) ==
    IF n < 10 THEN << Digits[n + 1] >>
    ELSE NatToChars(n \div 10) \o << Digits[(n % 10) + 1] >>

MetadataSql ==
    Chars("SELECT table_name, column_name, data_type, column_type FROM information_schema.columns WHERE table_schema = %s ORDER BY table_name, ordinal_position")

CountSql(table) == Chars("SELECT COUNT(*) as count FROM ") \o table
SampleSql(table) == Chars("SELECT * FROM ") \o table \o Chars(" LIMIT 3")

Stmt(by, s) == [by |-> by, sql |-> s]

RECURSIVE TableStatements(_)
\* the statements of the per-table loop, lines 179-192
TableStatements(tables) ==
    IF tables = << >> THEN << >>
    ELSE LET tb == Head(tables)
         IN  << Stmt("get_schema_detailed", CountSql(tb.name)) >>
             \o (IF tb.count_ok
                 THEN << Stmt("get_schema_detailed", SampleSql(tb.name)) >>
                 ELSE << >>)
             \o TableStatements(Tail(tables))

\* every statement get_schema_detailed hands to the store
schema_statements(store) ==
    IF ~store.reachable THEN << >>
    ELSE << Stmt("get_schema_detailed", MetadataSql) >>
         \o (IF store.meta_ok THEN TableStatements(store.tables) ELSE << >>)

\* one entry of the schema dict, lines 166-190; sample_data is held as the text
\* json.dumps(sample_data[:2], indent=2) gives (DumpRaise when it raises)
schema_entry(tb) ==
    [table |-> tb.name,
     columns |-> tb.columns,
     row_count |-> IF tb.count_ok THEN tb.row_count ELSE 0,
     sample_data |-> IF tb.count_ok /\ tb.sample_ok /\ tb.sample_dump # << >>
                     THEN tb.sample_dump ELSE None]

\* the schema dict as its entries in insertion order; {} is << >>
get_schema_detailed(store) ==
    IF ~store.reachable \/ ~store.meta_ok THEN << >>
    ELSE [i \in 1..Len(store.tables) |-> schema_entry(store.tables[i])]

\* json.dumps raising on a value it cannot serialise
DumpRaise == << "TypeError" >>

WarnSign == << "!", "~" >>

NoTablesText == WarnSign \o Chars(" No tables found.")

SampleBudget == 300

\* the lines of one table, lines 208-220
schema_lines(info) ==
    LET cols == [i \in 1..Len(info.columns) |->
                    info.columns[i].name \o Chars(" (") \o info.columns[i].type
                    \o Chars(")")]
    IN  << info.table \o Chars(":"),
           Chars("  - ") \o JoinWith(cols, Chars("\n  - ")),
           Chars("  Rows: ") \o NatToChars(info.row_count) >>
        \o (IF info.sample_data # None /\ info.sample_data # DumpRaise
               /\ Len(info.sample_data) < SampleBudget
            THEN << Chars("  Sample: ") \o info.sample_data >>
            ELSE << >>)
        \o << << >> >>

RECURSIVE all_schema_lines(_)
all_schema_lines(schema) ==
    IF schema = << >> THEN << >>
    ELSE schema_lines(Head(schema)) \o all_schema_lines(Tail(schema))

get_schema_text(store) ==
    LET schema == get_schema_detailed(store)
    IN  IF schema = << >> THEN NoTablesText
        ELSE JoinWith(all_schema_lines(schema), Chars("\n"))

(***************************************************************************)
(* The environment: request bodies, stores, result sets, completions       *)
(***************************************************************************)
\* request.json: absent, or a dict whose 'question' is q ("" when missing)
NoBody == << "NoBody" >>
Bodies == { NoBody, << >>, Chars("What was total revenue this year?") }

Col(n, ty, full) == [name |-> Chars(n), type |-> Chars(ty), full_type |-> Chars(full)]

\* c * n
Repeat(c, n) == [i \in 1..n |-> c]

TablePnl ==
    [name |-> Chars("pnl_data"),
     columns |-> << Col("Revenue", "int", "int(11)"), Col("year", "int", "int(11)") >>,
     count_ok |-> TRUE, row_count |-> 120, sample_ok |-> TRUE,
     sample_dump |-> Chars("[\n  {\n    \"Revenue\": 10,\n    \"year\": 2024\n  }\n]")]

TableLedger ==
    [name |-> Chars("ledger_dropped"),
     columns |-> << Col("amount", "decimal", "decimal(10,2)") >>,
     count_ok |-> FALSE, row_count |-> 7, sample_ok |-> FALSE,
     sample_dump |-> << >>]

TableWide ==
    [name |-> Chars("wide"),
     columns |-> << Col("memo", "text", "text") >>,
     count_ok |-> TRUE, row_count |-> 3, sample_ok |-> TRUE,
     sample_dump |-> << "[" >> \o Repeat("x", SampleBudget - 2) \o << "]" >>]

TableDated ==
    [name |-> Chars("invoices"),
     columns |-> << Col("due", "date", "date"), Col("amount", "decimal", "decimal(10,2)") >>,
     count_ok |-> TRUE, row_count |-> 0, sample_ok |-> TRUE,
     sample_dump |-> DumpRaise]

TableEmpty ==
    [name |-> Chars("audit"),
     columns |-> << Col("id", "int", "int(11)") >>,
     count_ok |-> TRUE, row_count |-> 0, sample_ok |-> FALSE,
     sample_dump |-> << >>]

Store(reachable, meta_ok, tables) ==
    [reachable |-> reachable, meta_ok |-> meta_ok, tables |-> tables]

StoreDown == Store(FALSE, FALSE, << >>)
StoreMetaFails == Store(TRUE, FALSE, << TablePnl >>)
StoreNoTables == Store(TRUE, TRUE, << >>)
StoreFinance == Store(TRUE, TRUE, << TablePnl, TableLedger >>)
StoreMixed == Store(TRUE, TRUE, << TableWide, TableDated, TableEmpty >>)

Stores == { StoreDown, StoreMetaFails, StoreNoTables, StoreFinance, StoreMixed }

Frame(columns, rows) == [columns |-> columns, rows |-> rows]

EmptyResult == Frame(<< >>, << >>)
OneRow == Frame(<< "total" >>, << << Text("1500") >> >>)
TwoRows ==
    Frame(<< "category", "total", "code" >>,
          << << Text("rent"), Text("10"), Text("x7") >>,
             << Text("ads"), Null, Text("8") >> >>)

ResultSets == { EmptyResult, OneRow, TwoRows }

\* the values of a cell of a result set handed to fetch_df directly
CellValues ==
    { Null, Num(7), Text("12"), Text("-3"), Text("x7"), Text(""), Text("nan") }

\* the columns of 1..MaxRows such cells
ColumnInputs == UNION { [1..n -> CellValues] : n \in 1..MaxRows }

\* a result set of no row, of one column, and of that column beside a column
\* of words or of numerals
FrameInputs ==
    { EmptyResult }
    \cup { Frame(<< "a" >>, [i \in 1..Len(c) |-> << c[i] >>]) : c \in ColumnInputs }
    \cup { Frame(<< "a", "b" >>, [i \in 1..Len(c) |-> << c[i], Text("rent") >>]) :
               c \in ColumnInputs }
    \cup { Frame(<< "b", "a" >>, [i \in 1..Len(c) |-> << Text("10"), c[i] >>]) :
               c \in ColumnInputs }

InsightCompletions == { Chars(" **Direct Answer:** 1500\n") }

ChartBodies ==
    { Chars("{\"chart\": \"bar\", \"x\": \"category\", \"y\": \"total\", \"title\": \"Totals\"}"),
      Chars("{\"chart\": \"histogram\", \"x\": \"total\", \"y\": null, \"title\": \"T\"}"),
      Chars("{\"chart\": \"pie\"}"),
      Chars("{\"chart\": 5, \"x\": true, \"y\": [], \"title\": {}}"),
      Chars("{\"chart\": \"line\", \"x\": \"a\", "),
      Chars("{'chart': 'bar'}"),
      Chars("[1, 2]"),
      Chars("42"),
      Chars("\"line\""),
      Chars("null"),
      Chars("Here is the chart: bar"),
      << >> }

ChartCompletions ==
    ChartBodies
    \cup { Chars("^^^json\n") \o b \o Chars("\n^^^") : b \in ChartBodies }
    \cup { Chars("\n ") \o b \o Chars(" as requested") : b \in ChartBodies }

\* every outcome of the chart prompt's service call, with what
\* generate_chart_spec makes of it
ChartCalls ==
    { [out |-> o, result |-> generate_chart_spec(o)] :
          o \in ChartCompletions \cup { ModelRaise } }

\* what generate_chart_spec can return, over every completion
ChartResults == { c.result : c \in ChartCalls }

(***************************************************************************)
(* process_query (POST /api/query), one action per blocking call           *)
(***************************************************************************)
\* jsonify(...), status: the keys the body carries and their values
Payload(status, keys, error, message, s, data, ins, chart, row_count) ==
    [status |-> status, keys |-> keys, error |-> error, message |-> message,
     sql |-> s, data |-> data, insights |-> ins, chart_spec |-> chart,
     row_count |-> row_count]

\* jsonify({'error': m}), status
ErrorPayload(status, m) ==
    Payload(status, {"error"}, m, << >>, << >>, << >>, << >>, JsonNull, 0)

NoResponse == Payload(0, {}, << >>, << >>, << >>, << >>, << >>, JsonNull, 0)

NoFrame == Frame(<< >>, << >>)

\* a direct call and its outcome: the argument is arg (a text), store or frame;
\* the outcome is raised with msg, or ret (a text), json, schema or out (a
\* frame); prev is
\* the outcome of the call before, when this call was made on it
Call(f, arg, store, frame, raised, msg, ret, json, schema, prev, out) ==
    [fn |-> f, arg |-> arg, store |-> store, frame |-> frame,
     raised |-> raised, msg |-> msg, ret |-> ret, json |-> json,
     schema |-> schema, prev |-> prev, out |-> out]

NoCall ==
    Call("none", None, StoreDown, NoFrame, FALSE, << >>, None, JsonNull, << >>,
         None, NoFrame)

Init ==
    /\ pc = "idle"
    /\ question = << >>
    /\ schema_text = << >>
    /\ attempt = 0
    /\ sql = None
    /\ df = NoFrame
    /\ insights = << >>
    /\ response = NoResponse
    /\ model_log = << >>
    /\ exec_log = << >>
    /\ accepted = << >>
    /\ completion = None
    /\ call = NoCall

\* the request ends with payload r
Respond(r) == response' = r /\ pc' = "done"

\* lines 564-568
Request ==
    /\ pc = "idle"
    /\ call = NoCall
    /\ \E body \in Bodies :
          /\ question' = IF body = NoBody THEN << >> ELSE body
          /\ IF body = NoBody
             THEN Respond(ErrorPayload(500,
                      Chars("'NoneType' object has no attribute 'get'")))
             ELSE IF body = << >>
                  THEN Respond(ErrorPayload(400, Chars("Question is required")))
                  ELSE pc' = "get_schema_text" /\ response' = NoResponse
    /\ schema_text' = << >> /\ attempt' = 0 /\ sql' = None /\ df' = NoFrame
    /\ insights' = << >> /\ model_log' = << >> /\ exec_log' = << >>
    /\ accepted' = << >> /\ completion' = None
    /\ UNCHANGED call

\* lines 571-573
GetSchemaText ==
    /\ pc = "get_schema_text"
    /\ \E store \in Stores :
          /\ schema_text' = get_schema_text(store)
          /\ exec_log' = exec_log \o schema_statements(store)
    /\ IF ~Truthy(schema_text') \/ Contains(schema_text', WarnSign)
       THEN Respond(ErrorPayload(500, Chars("Unable to access database schema")))
       ELSE pc' = "generate_sql" /\ UNCHANGED response
    /\ UNCHANGED << question, attempt, sql, df, insights, model_log, accepted,
                    completion, call >>

\* one pass of the loop of generate_sql, lines 279-311, and, after the last
\* pass, the return None of line 313
GenerateSqlAttempt ==
    /\ pc = "generate_sql"
    /\ attempt < max_retries
    /\ \E a \in SqlAttempts :
          /\ completion' = a.out
          /\ model_log' = Append(model_log, "sql")
          /\ IF a.ret # None
             THEN sql' = a.ret /\ pc' = "validate_sql" /\ UNCHANGED attempt
             ELSE /\ attempt' = attempt + 1
                  /\ sql' = None
                  /\ pc' = IF attempt + 1 < max_retries THEN "generate_sql"
                           ELSE "validate_sql"
    /\ UNCHANGED << question, schema_text, df, insights, response, exec_log,
                    accepted, call >>

\* lines 577-581 with the result of validate_sql dropped: a rejected statement
\* goes on to the store
ValidateSqlIgnored ==
    /\ pc = "validate_sql"
    /\ IF ~Truthy(sql)
       THEN Respond(ErrorPayload(500, Chars("Could not generate SQL query")))
       ELSE pc' = "fetch_df" /\ UNCHANGED response
    /\ completion' = None
    /\ UNCHANGED << question, schema_text, attempt, sql, df, insights, model_log,
                    exec_log, accepted, call >>

\* lines 577-581
ValidateSql ==
    /\ pc = "validate_sql"
    /\ IF ~Truthy(sql)
       THEN /\ Respond(ErrorPayload(500, Chars("Could not generate SQL query")))
            /\ UNCHANGED << sql, accepted >>
       ELSE LET r == validate_sql(sql)
            IN  IF r.raised
                THEN Respond(ErrorPayload(500, r.msg)) /\ UNCHANGED << sql, accepted >>
                ELSE /\ sql' = r.value
                     /\ accepted' = Append(accepted, r.value)
                     /\ pc' = "fetch_df"
                     /\ UNCHANGED response
    /\ completion' = None
    /\ UNCHANGED << question, schema_text, attempt, df, insights, model_log,
                    exec_log, call >>

\* lines 584-593
FetchDf ==
    /\ pc = "fetch_df"
    /\ exec_log' = Append(exec_log, Stmt("process_query", sql))
    /\ \/ Respond(ErrorPayload(500, StoreRaiseText)) /\ UNCHANGED df
       \/ \E result \in ResultSets :
             /\ df' = fetch_df(result)
             /\ IF Empty(df')
                THEN Respond(Payload(200,
                                     {"message", "sql", "data", "insights", "chart_spec"},
                                     << >>, Chars("Query returned no results"), sql,
                                     << >>, Chars("No data found for this query."),
                                     JsonNull, 0))
                ELSE pc' = "generate_insights" /\ UNCHANGED response
    /\ UNCHANGED << question, schema_text, attempt, sql, insights, model_log,
                    accepted, completion, call >>

\* line 596
GenerateInsights ==
    /\ pc = "generate_insights"
    /\ \E out \in InsightCompletions \cup { ModelRaise } :
          LET r == generate_insights(df, out)
          IN  insights' = r.ret /\ model_log' = model_log \o r.calls
    /\ pc' = "generate_chart_spec"
    /\ UNCHANGED << question, schema_text, attempt, sql, df, response, exec_log,
                    accepted, completion, call >>

\* lines 599-617
GenerateChartSpec ==
    /\ pc = "generate_chart_spec"
    /\ \E r \in ChartResults :
          /\ model_log' = model_log \o r.calls
          /\ Respond(Payload(200,
                             {"sql", "data", "insights", "chart_spec", "row_count"},
                             << >>, << >>, sql, df.rows, insights, r.ret,
                             Len(df.rows)))
    /\ UNCHANGED << question, schema_text, attempt, sql, df, insights, exec_log,
                    accepted, completion, call >>

\* the worker is free for the next request; nothing of a request survives it
Finish ==
    /\ pc = "done"
    /\ pc' = "idle"
    /\ question' = << >> /\ schema_text' = << >> /\ attempt' = 0 /\ sql' = None
    /\ df' = NoFrame /\ insights' = << >> /\ response' = NoResponse
    /\ model_log' = << >> /\ exec_log' = << >> /\ accepted' = << >>
    /\ completion' = None
    /\ UNCHANGED call

ProcessQuery ==
    \/ Request
    \/ GetSchemaText
    \/ GenerateSqlAttempt
    \/ ValidateSql
    \/ FetchDf
    \/ GenerateInsights
    \/ GenerateChartSpec
    \/ Finish

(***************************************************************************)
(* Direct calls of the functions, made while no request is being served    *)
(***************************************************************************)
Idle ==
    /\ pc = "idle"
    /\ UNCHANGED << pc, question, schema_text, attempt, sql, df, insights,
                    response, accepted, completion >>

CallValidateSql ==
    /\ Idle /\ call = NoCall
    /\ \E s \in SqlInputs \cup { None } :
          LET r == validate_sql(s)
          IN  call' = [NoCall EXCEPT !.fn = "validate_sql", !.arg = s,
                                     !.raised = r.raised, !.msg = r.msg,
                                     !.ret = r.value]
    /\ model_log' = << >> /\ exec_log' = << >>

CallEnforceLimit ==
    /\ Idle /\ call = NoCall
    /\ \E s \in SqlInputs :
          call' = [NoCall EXCEPT !.fn = "enforce_limit", !.arg = s,
                                 !.ret = enforce_limit(s)]
    /\ model_log' = << >> /\ exec_log' = << >>

\* enforce_limit applied to what enforce_limit returned
CallEnforceLimitAgain ==
    /\ Idle
    /\ call.fn = "enforce_limit" /\ call.prev = None
    /\ call' = [call EXCEPT !.prev = call.ret, !.ret = enforce_limit(call.ret)]
    /\ UNCHANGED << model_log, exec_log >>

CallGenerateInsights ==
    /\ Idle /\ call = NoCall
    /\ \E result \in ResultSets, out \in InsightCompletions \cup { ModelRaise } :
          LET r == generate_insights(fetch_df(result), out)
          IN  /\ call' = [NoCall EXCEPT !.fn = "generate_insights",
                                        !.frame = fetch_df(result), !.ret = r.ret]
              /\ model_log' = r.calls
    /\ exec_log' = << >>

CallGenerateChartSpec ==
    /\ Idle /\ call = NoCall
    /\ \E c \in ChartCalls :
          /\ call' = [NoCall EXCEPT !.fn = "generate_chart_spec", !.arg = c.out,
                                    !.json = c.result.ret]
          /\ model_log' = c.result.calls
    /\ exec_log' = << >>

CallGetSchemaDetailed ==
    /\ Idle /\ call = NoCall
    /\ \E store \in Stores :
          /\ call' = [NoCall EXCEPT !.fn = "get_schema_detailed", !.store = store,
                                    !.schema = get_schema_detailed(store)]
          /\ exec_log' = schema_statements(store)
    /\ model_log' = << >>

CallGetSchemaText ==
    /\ Idle /\ call = NoCall
    /\ \E store \in Stores :
          /\ call' = [NoCall EXCEPT !.fn = "get_schema_text", !.store = store,
                                    !.ret = get_schema_text(store)]
          /\ exec_log' = schema_statements(store)
    /\ model_log' = << >>

\* validate_sql(enforce_limit(s)) after validate_sql(s): prev keeps the message
\* the first call raised, << >> if it raised none
CallValidateLimited ==
    /\ Idle
    /\ call.fn = "validate_sql" /\ call.arg # None
    /\ LET r == validate_sql(enforce_limit(call.arg))
       IN  call' = [call EXCEPT !.fn = "validate_sql(enforce_limit)",
                                !.prev = call.msg, !.raised = r.raised,
                                !.msg = r.msg, !.ret = r.value]
    /\ UNCHANGED << model_log, exec_log >>

\* DB.fetch_df(sql): the store raises, or gives a result set
CallFetchDf ==
    /\ Idle /\ call = NoCall
    /\ LET s == Chars("select a from t")
       IN  /\ exec_log' = << Stmt("caller", s) >>
           /\ \/ call' = [NoCall EXCEPT !.fn = "fetch_df", !.arg = s,
                                        !.raised = TRUE, !.msg = StoreRaiseText]
              \/ \E result \in FrameInputs :
                    call' = [NoCall EXCEPT !.fn = "fetch_df", !.arg = s,
                                           !.frame = result,
                                           !.out = fetch_df(result)]
    /\ model_log' = << >>

\* the direct caller is done with the result
Return ==
    /\ Idle
    /\ call # NoCall
    /\ call' = NoCall
    /\ model_log' = << >> /\ exec_log' = << >>

DirectCall ==
    \/ CallValidateSql
    \/ CallEnforceLimit
    \/ CallEnforceLimitAgain
    \/ CallGenerateInsights
    \/ CallGenerateChartSpec
    \/ CallGetSchemaDetailed
    \/ CallGetSchemaText
    \/ CallValidateLimited
    \/ CallFetchDf
    \/ Return

Next == ProcessQuery \/ DirectCall

Spec == Init /\ [][Next]_vars

\* a service call returns or raises: generate_sql is not left waiting forever
FairSpec == Spec /\ WF_vars(GenerateSqlAttempt)

(***************************************************************************)
(* Properties                                                              *)
(***************************************************************************)
\* the lower-cased text holds a forbidden keyword as a substring
HasForbidden(s) ==
    LET lowered == Lower(s)
    IN  \E k \in { "insert", "update", "delete", "drop", "alter", "truncate",
                   "create", "grant", "revoke" } : Contains(lowered, Chars(k))

\* the trimmed, lower-cased text starts with "select"
StartsWithSelect(s) == StartsWith(Strip(Lower(s)), Chars("select"))

NotAReadQuery == Chars("Only SELECT queries allowed")

\* C1: validate_sql rejects, with an error, every string whose lower-cased form
\* holds a forbidden keyword as a substring, also inside a longer identifier,
\* and never returns that string.
C1_ForbiddenRejected ==
    (call.fn = "validate_sql" /\ call.arg # None /\ HasForbidden(call.arg))
        => (call.raised /\ call.msg # << >> /\ call.ret # call.arg)

\* C1 witness: "drop" inside the identifier table_dropped of a SELECT is rejected
C1_Witness ==
    /\ call.fn = "validate_sql"
    /\ call.arg = Chars("select a FROM table_dropped")
    /\ call.raised
    /\ call.msg = Chars("Unsafe SQL operation: drop")

\* C2 as claimed: validate_sql fails with "Only SELECT queries allowed", and
\* with no other error, on every string whose trimmed, lower-cased form does
\* not start with "select".
C2_Original ==
    (call.fn = "validate_sql" /\ call.arg # None /\ ~StartsWithSelect(call.arg))
        => (call.raised /\ call.msg = NotAReadQuery)

\* C2 as amended: validate_sql fails with "Only SELECT queries allowed" on every
\* non-empty string that holds no forbidden keyword and whose trimmed,
\* lower-cased form does not start with "select".
C2_NotAReadQuery ==
    (call.fn = "validate_sql" /\ call.arg # None /\ call.arg # << >>
        /\ ~HasForbidden(call.arg) /\ ~StartsWithSelect(call.arg))
        => (call.raised /\ call.msg = NotAReadQuery)

\* C2 witness: a statement that holds "select", but not at its start
C2_Witness ==
    /\ call.fn = "validate_sql"
    /\ call.arg = Chars(";select a from t")
    /\ call.raised
    /\ call.msg = NotAReadQuery

\* the statements process_query itself handed to the store
QueryStatements ==
    { exec_log[i].sql :
        i \in { j \in 1..Len(exec_log) : exec_log[j].by = "process_query" } }

\* C3: process_query executes a generated statement only after validate_sql
\* has accepted exactly that string, so that every executed statement starts
\* with "select" and holds no forbidden keyword; and when validate_sql rejects,
\* the request ends with an error payload and no generated statement executed.
C3_ValidatedBeforeExecuted ==
    /\ \A s \in QueryStatements :
          /\ \E i \in 1..Len(accepted) : accepted[i] = s
          /\ StartsWithSelect(s)
          /\ ~HasForbidden(s)
    /\ (pc \notin {"idle", "get_schema_text", "generate_sql", "validate_sql"}
            /\ Truthy(sql) /\ (HasForbidden(sql) \/ ~StartsWithSelect(sql)))
        => /\ pc = "done"
           /\ response.status = 500
           /\ response.keys = {"error"}
           /\ QueryStatements = {}

\* C3 witness: a generated statement with a trailing DROP is rejected and the
\* request is over, with the validator's error as its payload
C3_Witness ==
    /\ pc = "done"
    /\ Truthy(sql) /\ StartsWithSelect(sql) /\ HasForbidden(sql)
    /\ response.error = Chars("Unsafe SQL operation: drop")
    /\ QueryStatements = {}

\* C4: enforce_limit is idempotent.
C4_Idempotent ==
    (call.fn = "enforce_limit" /\ call.prev # None) => call.ret = call.prev

\* C4 witness: the first application appended the clause, the second changed
\* nothing
C4_Witness ==
    /\ call.fn = "enforce_limit"
    /\ call.prev # None
    /\ call.prev # call.arg
    /\ call.ret = call.prev

\* what enforce_limit returns when it appends the clause
Limited(s) == RStripChar(s, ";") \o Chars(" LIMIT 50;")

HasAggregate(s) ==
    LET lowered == Lower(s)
    IN  \E k \in { "sum(", "count(", "avg(", "min(", "max(" } :
            Contains(lowered, Chars(k))

\* C5 as claimed: every string that holds "group by" and no "limit" (both
\* case-insensitively) comes back with its trailing semicolons stripped and
\* " LIMIT 50;" appended, with or without an aggregate call.
C5_Original ==
    LET lowered == Lower(call.arg)
    IN  (call.fn = "enforce_limit" /\ call.prev = None
            /\ Contains(lowered, Chars("group by"))
            /\ ~Contains(lowered, Chars("limit")))
            => call.ret = Limited(call.arg)

\* C5 as amended: every string that holds "from" and "group by" and no "limit"
\* (all case-insensitively) comes back with its trailing semicolons stripped
\* and " LIMIT 50;" appended, with or without an aggregate call.
C5_GroupByLimited ==
    LET lowered == Lower(call.arg)
    IN  (call.fn = "enforce_limit" /\ call.prev = None
            /\ Contains(lowered, Chars("from"))
            /\ Contains(lowered, Chars("group by"))
            /\ ~Contains(lowered, Chars("limit")))
            => call.ret = Limited(call.arg)

\* C5 witness: a grouped aggregate query ending in a semicolon
C5_Witness ==
    /\ call.fn = "enforce_limit" /\ call.prev = None
    /\ call.arg = Chars(" SELECT sum(x) from t Group By b;")
    /\ HasAggregate(call.arg)
    /\ call.ret = Chars(" SELECT sum(x) from t Group By b LIMIT 50;")

IsSqlCall(kind) == kind = "sql"

\* the service calls generate_sql has made in this request
SqlCalls == Len(SelectSeq(model_log, IsSqlCall))

\* the attempt failed: the call raised, or its cleaned output does not start
\* with "select"
FailedAttempt(out) ==
    out = ModelRaise \/ ~StartsWith(Lower(CleanSql(out)), Chars("select"))

\* C6, in every state: generate_sql has called the service at most 3 times;
\* while it loops every call so far was a failed attempt; it returns after the
\* first attempt that did not fail, with enforce_limit of that cleaned output;
\* and it returns None exactly when 3 attempts have failed.
C6_Attempts ==
    /\ SqlCalls <= 3
    /\ pc = "generate_sql" =>
          /\ attempt < 3
          /\ SqlCalls = attempt
          /\ attempt > 0 => FailedAttempt(completion)
    /\ pc = "validate_sql" =>
          /\ SqlCalls >= 1
          /\ sql = None <=> (attempt = 3 /\ SqlCalls = 3 /\ FailedAttempt(completion))
          /\ sql # None =>
                /\ ~FailedAttempt(completion)
                /\ SqlCalls = attempt + 1
                /\ sql = enforce_limit(CleanSql(completion))

\* C6: the bounds and results above hold throughout, and generate_sql always
\* terminates: a request that is in generate_sql gets out of it.
C6_BoundedRetries ==
    /\ []C6_Attempts
    /\ (pc = "generate_sql") ~> (pc = "validate_sql")

\* C6 witness: two failed attempts, and the third one's statement is returned
C6_Witness ==
    /\ pc = "validate_sql"
    /\ attempt = 2
    /\ SqlCalls = 3
    /\ sql = Chars("Select b FROM u LIMIT 50;")

\* process_query has executed the generated statement
Executed == QueryStatements # {}

\* C7: on an empty result table the insight is exactly "No data found for this
\* query." and no service call follows the execution: generate_insights makes
\* none, and process_query ends the request without calling generate_insights
\* or generate_chart_spec.
C7_EmptyShortCircuit ==
    /\ (call.fn = "generate_insights" /\ Empty(call.frame))
          => (call.ret = Chars("No data found for this query.") /\ model_log = << >>)
    /\ pc \in {"generate_insights", "generate_chart_spec"} => ~Empty(df)
    /\ (pc = "done" /\ Executed /\ response.status = 200 /\ Empty(df))
          => /\ response.insights = Chars("No data found for this query.")
             /\ "insights" \in response.keys
             /\ \A i \in 1..Len(model_log) : model_log[i] = "sql"

\* C7 witness: the request whose query returned no row is over
C7_Witness ==
    /\ pc = "done"
    /\ Executed
    /\ Empty(df)
    /\ response.status = 200
    /\ response.insights = Chars("No data found for this query.")

\* the completion of the chart prompt is no JSON once stripped of its fences
NotJson(out) == json_loads(Strip(StripJsonFences(Strip(out)))).raised

TableChart ==
    [t |-> "obj", s |-> << >>,
     items |-> << [k |-> Chars("chart"),
                   val |-> [t |-> "str", s |-> Chars("table"), items |-> << >>]],
                  [k |-> Chars("x"),
                   val |-> [t |-> "null", s |-> << >>, items |-> << >>]],
                  [k |-> Chars("y"),
                   val |-> [t |-> "null", s |-> << >>, items |-> << >>]],
                  [k |-> Chars("title"),
                   val |-> [t |-> "str", s |-> Chars("Data Preview"),
                            items |-> << >>]] >>]

\* C8: when the chart call raises or its output is no JSON, generate_chart_spec
\* returns exactly {chart: "table", x: null, y: null, title: "Data Preview"}
\* after its one service call.
C8_ChartFallback ==
    (call.fn = "generate_chart_spec" /\ (call.arg = ModelRaise \/ NotJson(call.arg)))
        => (call.json = TableChart /\ model_log = << "chart" >>)

\* C8 witness: a fenced answer cut off in the middle of the object
C8_Witness ==
    /\ call.fn = "generate_chart_spec"
    /\ call.arg = Chars("^^^json\n{\"chart\": \"line\", \"x\": \"a\", \n^^^")
    /\ call.json = TableChart

ChartKinds ==
    { Chars("line"), Chars("bar"), Chars("pie"), Chars("scatter"), Chars("table") }

HasKey(v, key) == \E i \in 1..Len(v.items) : v.items[i].k = Chars(key)

Member(v, key) ==
    v.items[CHOOSE i \in 1..Len(v.items) : v.items[i].k = Chars(key)].val

\* a record with a chart kind of the five, and x, y and title
IsChartSpecification(v) ==
    /\ v.t = "obj"
    /\ HasKey(v, "chart") /\ HasKey(v, "x") /\ HasKey(v, "y") /\ HasKey(v, "title")
    /\ Member(v, "chart").t = "str"
    /\ Member(v, "chart").s \in ChartKinds

\* C9 as claimed: whatever the service answers, generate_chart_spec returns a
\* record whose chart kind is one of line, bar, pie, scatter, table and which
\* carries x, y and title; so does the chart_spec of a /api/query payload that
\* generate_chart_spec produced.
C9_ChartSpecShape ==
    /\ call.fn = "generate_chart_spec" => IsChartSpecification(call.json)
    /\ (pc = "done" /\ response.status = 200 /\ "row_count" \in response.keys)
          => IsChartSpecification(response.chart_spec)

StoreFails(store) == ~store.reachable \/ ~store.meta_ok

\* C10 as claimed: a store that is unreachable or whose metadata query fails
\* gives the introspector's caller an outcome different from that of a
\* reachable store without tables, whose text is not one process_query turns
\* into an error.
C10_SchemaOutcomesDiffer ==
    /\ (call.fn = "get_schema_detailed" /\ StoreFails(call.store))
          => call.schema # get_schema_detailed(StoreNoTables)
    /\ (call.fn = "get_schema_text" /\ StoreFails(call.store))
          => call.ret # get_schema_text(StoreNoTables)
    /\ (call.fn = "get_schema_text" /\ ~StoreFails(call.store)
            /\ call.store.tables = << >>)
          => (Truthy(call.ret) /\ ~Contains(call.ret, WarnSign))

\* the cell is a number, or a text that reads as one: digits after an
\* optional minus sign
ParsesAsANumber(c) ==
    \/ c.t = "num"
    \/ /\ c.t = "text"
       /\ LET d == IF c.s # << >> /\ Head(c.s) = "-" THEN Tail(c.s) ELSE c.s
          IN  d # << >> /\ \A i \in 1..Len(d) : d[i] \in { Digits[k] : k \in 1..10 }

\* the number such a cell stands for
NumberOf(c) ==
    IF c.t = "num" THEN c.n
    ELSE IF Head(c.s) = "-" THEN 0 - DigitsToNat(Tail(c.s))
    ELSE DigitsToNat(c.s)

HoldsText(col) == \E i \in 1..Len(col) : col[i].t = "text"

IsNumericColumn(col) == \A i \in 1..Len(col) : col[i].t \in { "num", "null" }

\* C11: in the table fetch_df returns, the column names and the number of rows
\* are those of the result set; a column that holds a text is numeric if and
\* only if one of its values parses as a number; in such a column every value
\* that parses is its number and every other value is null; a column none of
\* whose values parses is exactly as it was; so every column is either
\* untouched or numeric throughout.
C11_ColumnConversion ==
    (call.fn = "fetch_df" /\ ~call.raised) =>
        /\ call.out.columns = call.frame.columns
        /\ Len(call.out.rows) = Len(call.frame.rows)
        /\ \A j \in 1..Len(call.frame.columns) :
              LET before == Column(call.frame, j)
                  after == Column(call.out, j)
                  some_parses == \E i \in 1..Len(before) : ParsesAsANumber(before[i])
              IN  /\ HoldsText(before) => (IsNumericColumn(after) <=> some_parses)
                  /\ (HoldsText(before) /\ some_parses) =>
                        \A i \in 1..Len(before) :
                           after[i] = IF ParsesAsANumber(before[i])
                                      THEN Num(NumberOf(before[i])) ELSE Null
                  /\ ~some_parses => after = before
                  /\ after = before \/ IsNumericColumn(after)

\* C11 witness: of the column "12", "x7" the first value became 12 and the
\* second null, while the column of words beside it is as it was
C11_Witness ==
    /\ call.fn = "fetch_df"
    /\ call.frame = Frame(<< "a", "b" >>,
                          << << Text("12"), Text("rent") >>,
                             << Text("x7"), Text("rent") >> >>)
    /\ call.out = Frame(<< "a", "b" >>,
                        << << Num(12), Text("rent") >>,
                           << Null, Text("rent") >> >>)

\* C12: validate_sql gives enforce_limit(s) the verdict it gives s: it accepts
\* the one exactly when it accepts the other, and rejects both with the same
\* message; so in process_query the statement generate_sql returns, which went
\* through enforce_limit, is accepted or rejected as the cleaned completion
\* itself would be.
C12_LimitKeepsVerdict ==
    /\ call.fn = "validate_sql(enforce_limit)" =>
          /\ call.raised <=> call.prev # << >>
          /\ call.msg = call.prev
          /\ ~call.raised =>
                /\ StartsWithSelect(call.ret) /\ ~HasForbidden(call.ret)
                /\ StartsWithSelect(call.arg) /\ ~HasForbidden(call.arg)
    /\ (pc = "validate_sql" /\ sql # None) =>
          LET cleaned == validate_sql(CleanSql(completion))
              limited == validate_sql(sql)
          IN  cleaned.raised = limited.raised /\ cleaned.msg = limited.msg

\* C12 witness: a statement enforce_limit rewrote is accepted, as it was before
C12_Witness ==
    /\ call.fn = "validate_sql(enforce_limit)"
    /\ call.arg = Chars("select a from t;")
    /\ call.prev = << >>
    /\ ~call.raised
    /\ call.ret = Chars("select a from t LIMIT 50;")

====
